---- MODULE Spec2Model ----
(***************************************************************************)
(* Model of the sandbox orchestrator (src/orchestrator/app):               *)
(*   auth.py    - file-backed session store (create / verify / revoke)     *)
(*   droplet.py - DropletManager: sandbox lifecycle and snapshot saga      *)
(*   main.py    - request handlers that glue both together                 *)
(*                                                                         *)
(* The specifications share the variables:                                *)
(*   SpecAuth      - the session store and the clock                       *)
(*   SpecEnroll    - enrollment and login with one-time codes              *)
(*   SpecOrch      - the sandbox operations against a provider that may    *)
(*                   fail any request                                      *)
(*   SpecSaga      - the snapshot saga, request by request                 *)
(*   SpecIsolation - the saga beside all four sandbox operations           *)
(*   SpecSpawnRace - two spawn_sandbox calls in flight at once             *)
(*   SpecStoreRace - two workers mutating the session store at once        *)
(***************************************************************************)
EXTENDS Integers, Sequences, FiniteSets, TLC

(***************************************************************************)
(* Bounds of the model                                                     *)
(***************************************************************************)
\* tokens that secrets.token_urlsafe hands out during one run
MaxTokens == 2
\* the clock stops here (hours)
MaxNow == 48
\* instances the provider creates during one run
MaxDroplets == 2
\* the one-time-code clock stops at this time step
MaxStep == 6
\* the number of distinct one-time codes (10 ** digits in pyotp)
CodeSpace == 7

(***************************************************************************)
(* Program constants                                                       *)
(***************************************************************************)
SESSION_DURATION_HOURS == 24

\* The empty cookie value / empty string token.
EmptyToken == 0
\* Tokens a caller can present: the empty one, the ones the random source
\* hands out (1..MaxTokens), and one that it never hands out.
ForgedToken == MaxTokens + 1
Tokens == EmptyToken..ForgedToken
Users == {"admin", "ops"}
None == "None"

\* The clock advances by half a session lifetime or a whole one.
TickSteps == {SESSION_DURATION_HOURS \div 2, SESSION_DURATION_HOURS}

VARIABLES
    sessions_file,  \* sessions.json: [exists, data], data: digest -> record
    now,            \* datetime.utcnow(), in hours
    next_token,     \* the next value of secrets.token_urlsafe(32)
    issued,         \* history: tokens returned by create_session
    revoked,        \* history: tokens passed to a revoke_session that returned True
    logged_out,     \* history: tokens whose holder went through GET /logout
    rejected,       \* history: tokens verify_session rejected as expired
    last,           \* the last completed auth call and what it returned
    droplets,       \* the provider's instances, in the order it lists them
    next_id,        \* the id the provider gives the next instance
    network_config_file, \* network_config.json (None when absent)
    res,            \* what the last completed orchestrator operation returned
    reqs,           \* the requests that operation sent, in order
    bs_pc,          \* build_sandbox_snapshot: where the running call stands
    bs_id,          \* build_sandbox_snapshot: its local droplet_id
    bs_snaps,       \* build_sandbox_snapshot: its local snapshot_list
    bs_res,         \* what the last build_sandbox_snapshot returned
    bs_reqs,        \* the requests of the running (or last) build_sandbox_snapshot
    totp_secret_file, \* totp_secret.json: the secret, None when the file is absent
    totp_step,      \* int(time.time()) // 30, the one-time-code time step
    resp,           \* what the last main.py auth handler answered
    sp_pc,          \* concurrent spawn_sandbox calls: where each stands
    sp_res,         \* concurrent spawn_sandbox calls: what each returned
    sp_reqs,        \* the requests of the concurrent calls, in the order sent
    ws              \* concurrent session-store mutations: each worker's locals

authVars == <<sessions_file, now, next_token, issued, revoked, logged_out, rejected, last>>

orchVars == <<droplets, next_id, network_config_file, res, reqs,
              bs_pc, bs_id, bs_snaps, bs_res, bs_reqs>>

enrollVars == <<totp_secret_file, totp_step, resp>>

raceVars == <<sp_pc, sp_res, sp_reqs, ws>>

vars == <<sessions_file, now, next_token, issued, revoked, logged_out, rejected, last,
          droplets, next_id, network_config_file, res, reqs,
          bs_pc, bs_id, bs_snaps, bs_res, bs_reqs,
          totp_secret_file, totp_step, resp,
          sp_pc, sp_res, sp_reqs, ws>>

(***************************************************************************)
(* auth.py                                                                 *)
(***************************************************************************)

\* hashlib.sha256(session_id.encode()).hexdigest(): a one-way map, modelled
\* as an injective map whose values are disjoint from the tokens.
sha256(token) == 100 + ((37 * token + 11) % 101)

\* create_session line 61: the key the new record is stored under.
new_session_hash_mut(token) == token
new_session_hash(token) == sha256(token)

\* verify_session, get_session_user, revoke_session: the key looked up.
session_hash(token) == sha256(token)

\* _load_sessions: the file's dict, {} when the file does not exist.
NoSessions == [d \in {} |-> None]
_load_sessions(file) == IF file.exists THEN file.data ELSE NoSessions

\* _save_sessions: write_text creates the file.
_save_sessions(sessions) == [exists |-> TRUE, data |-> sessions]

\* A dict without one key (del sessions[k]).
DictDel(sessions, k) == [d \in (DOMAIN sessions) \ {k} |-> sessions[d]]
\* A dict with one key set (sessions[k] = v).
DictSet(sessions, k, v) ==
    [d \in (DOMAIN sessions) \cup {k} |-> IF d = k THEN v ELSE sessions[d]]

\* _clean_expired_sessions: keeps the records with expires_at > now.
\* isoformat() strings of one fixed layout compare as the instants do.
_clean_expired_sessions(sessions, t) ==
    [d \in {k \in DOMAIN sessions : sessions[k].expires_at > t} |-> sessions[d]]

\* verify_session line 93: the expiry test.
is_expired_mut(session, t) == session.expires_at > t
is_expired(session, t) == session.expires_at < t

\* create_session: the file it writes.
create_session_file_mut(user, token, file, t) ==
    LET sessions == _clean_expired_sessions(_load_sessions(file), t)
        record == [user |-> user,
                   session_id |-> token,
                   created_at |-> t,
                   expires_at |-> t + SESSION_DURATION_HOURS]
    IN  _save_sessions(DictSet(sessions, new_session_hash(token), record))
create_session_file(user, token, file, t) ==
    LET sessions == _clean_expired_sessions(_load_sessions(file), t)
        record == [user |-> user,
                   created_at |-> t,
                   expires_at |-> t + SESSION_DURATION_HOURS]
    IN  _save_sessions(DictSet(sessions, new_session_hash(token), record))

\* verify_session: what it returns.
verify_session_result(token, file, t) ==
    LET sessions == _load_sessions(file)
        h == session_hash(token)
    IN  /\ token # EmptyToken
        /\ h \in DOMAIN sessions
        /\ ~is_expired(sessions[h], t)

\* verify_session: the file it leaves (the expired record is deleted).
verify_session_file(token, file, t) ==
    LET sessions == _load_sessions(file)
        h == session_hash(token)
    IN  IF token # EmptyToken /\ h \in DOMAIN sessions /\ is_expired(sessions[h], t)
        THEN _save_sessions(DictDel(sessions, h))
        ELSE file

\* get_session_user: what it returns (no expiry test in the code).
get_session_user_result(token, file) ==
    LET sessions == _load_sessions(file)
        h == session_hash(token)
    IN  IF token # EmptyToken /\ h \in DOMAIN sessions
        THEN sessions[h].user
        ELSE None

\* revoke_session: what it returns.
revoke_session_result(token, file) ==
    /\ token # EmptyToken
    /\ session_hash(token) \in DOMAIN _load_sessions(file)

\* revoke_session: the file it leaves.
revoke_session_file_mut(token, file) ==
    IF revoke_session_result(token, file)
    THEN _save_sessions(NoSessions)
    ELSE file
revoke_session_file(token, file) ==
    IF revoke_session_result(token, file)
    THEN _save_sessions(DictDel(_load_sessions(file), session_hash(token)))
    ELSE file

\* revoke_all_sessions: the file it leaves.
revoke_all_sessions_file(file) ==
    IF file.exists THEN [exists |-> TRUE, data |-> NoSessions] ELSE file

Call(op, token, user, ok) == [op |-> op, token |-> token, user |-> user, ok |-> ok]

create_session(user) ==
    /\ next_token <= MaxTokens
    /\ sessions_file' = create_session_file(user, next_token, sessions_file, now)
    /\ issued' = issued \cup {next_token}
    /\ next_token' = next_token + 1
    /\ last' = Call("create_session", next_token, user, TRUE)
    /\ UNCHANGED <<now, revoked, logged_out, rejected>>
    /\ UNCHANGED orchVars
    /\ UNCHANGED raceVars
    /\ UNCHANGED enrollVars

verify_session(token) ==
    /\ sessions_file' = verify_session_file(token, sessions_file, now)
    /\ rejected' = IF sessions_file' # sessions_file
                   THEN rejected \cup {token} ELSE rejected
    /\ last' = Call("verify_session", token, None,
                    verify_session_result(token, sessions_file, now))
    /\ UNCHANGED <<now, next_token, issued, revoked, logged_out>>
    /\ UNCHANGED orchVars
    /\ UNCHANGED raceVars
    /\ UNCHANGED enrollVars

get_session_user(token) ==
    /\ last' = Call("get_session_user", token,
                    get_session_user_result(token, sessions_file),
                    get_session_user_result(token, sessions_file) # None)
    /\ UNCHANGED <<sessions_file, now, next_token, issued, revoked, logged_out, rejected>>
    /\ UNCHANGED orchVars
    /\ UNCHANGED raceVars
    /\ UNCHANGED enrollVars

revoke_session(token) ==
    /\ sessions_file' = revoke_session_file(token, sessions_file)
    /\ revoked' = IF revoke_session_result(token, sessions_file)
                  THEN revoked \cup {token} ELSE revoked
    /\ last' = Call("revoke_session", token, None,
                    revoke_session_result(token, sessions_file))
    /\ UNCHANGED <<now, next_token, issued, logged_out, rejected>>
    /\ UNCHANGED orchVars
    /\ UNCHANGED raceVars
    /\ UNCHANGED enrollVars

revoke_all_sessions ==
    /\ sessions_file' = revoke_all_sessions_file(sessions_file)
    /\ last' = Call("revoke_all_sessions", EmptyToken, None, TRUE)
    /\ UNCHANGED <<now, next_token, issued, revoked, logged_out, rejected>>
    /\ UNCHANGED orchVars
    /\ UNCHANGED raceVars
    /\ UNCHANGED enrollVars

(***************************************************************************)
(* main.py: GET /logout.  The handler answers with a redirect that deletes *)
(* the cookie in the browser; it does not touch the session store.         *)
(***************************************************************************)
logout(token) ==
    /\ token \in issued
    /\ logged_out' = logged_out \cup {token}
    /\ last' = Call("logout", token, None, TRUE)
    /\ UNCHANGED <<sessions_file, now, next_token, issued, revoked, rejected>>
    /\ UNCHANGED orchVars
    /\ UNCHANGED raceVars
    /\ UNCHANGED enrollVars

\* Time passes between two calls.
Tick ==
    \E d \in TickSteps :
        /\ now + d <= MaxNow
        /\ now' = now + d
        /\ last' = Call("tick", EmptyToken, None, TRUE)
        /\ UNCHANGED <<sessions_file, next_token, issued, revoked, logged_out, rejected>>
        /\ UNCHANGED orchVars
        /\ UNCHANGED raceVars
        /\ UNCHANGED enrollVars


(***************************************************************************)
(* One-time codes: pyotp.TOTP as auth.py and main.py use it.               *)
(***************************************************************************)
\* Secrets a form can carry (pyotp.random_base32 values).
Secrets == {"JBSWY3DP", "KRSXG5CT"}
\* pyotp: byte_secret(), the key the base32 text decodes to.
byte_secret(secret) == IF secret = "JBSWY3DP" THEN 1 ELSE 2
\* The codes a form can carry.
Codes == 0..(CodeSpace - 1)

\* pyotp: generate_otp(counter), the HMAC of the counter under the secret
\* truncated to the code's digits: a many-to-one map into the codes.
generate_otp(secret, counter) ==
    (5 * byte_secret(secret) + counter * counter) % CodeSpace

\* pyotp: TOTP.at(for_time, counter_offset) = generate_otp(timecode + offset)
totp_at(secret, step, counter_offset) == generate_otp(secret, step + counter_offset)

\* pyotp: TOTP.verify(otp, valid_window): the code equals the code of one of
\* the steps step - valid_window .. step + valid_window.
totp_verify(secret, otp, step, valid_window) ==
    \E i \in (0 - valid_window)..valid_window : otp = totp_at(secret, step, i)

\* auth.py verify_totp, and the same call in complete_setup (main.py 183-184).
verify_totp_mut(secret, code, step) == totp_verify(secret, code, step, 0)
verify_totp_wide(secret, code, step) == totp_verify(secret, code, step, 2)
verify_totp(secret, code, step) == totp_verify(secret, code, step, 1)

(***************************************************************************)
(* main.py: enrollment and login                                           *)
(***************************************************************************)
get_totp_secret(file) == file
save_totp_secret(secret) == secret
is_setup_complete_mut(file) == FALSE
is_setup_complete(file) == get_totp_secret(file) # None

\* NoCode: the request carried no one-time code.
NoCode == 0 - 1
Response(op, result, cookie, code) ==
    [op |-> op, result |-> result, cookie |-> cookie, code |-> code]

\* GET /setup: shows a fresh secret; nothing is persisted.
setup_page ==
    /\ resp' = IF is_setup_complete(totp_secret_file)
               THEN Response("setup_page", "303 /login", EmptyToken, NoCode)
               ELSE Response("setup_page", "setup.html", EmptyToken, NoCode)
    /\ UNCHANGED <<totp_secret_file, totp_step>>
    /\ UNCHANGED authVars
    /\ UNCHANGED orchVars
    /\ UNCHANGED raceVars

\* The tail shared by complete_setup and login: create_session("admin") and
\* the redirect that sets the cookie.
session_cookie(op, totp_code) ==
    /\ next_token <= MaxTokens
    /\ sessions_file' = create_session_file("admin", next_token, sessions_file, now)
    /\ issued' = issued \cup {next_token}
    /\ next_token' = next_token + 1
    /\ resp' = Response(op, "303 /", next_token, totp_code)

\* POST /setup
complete_setup(secret, totp_code) ==
    /\ IF is_setup_complete(totp_secret_file)
       THEN /\ resp' = Response("complete_setup", "303 /login", EmptyToken, totp_code)
            /\ UNCHANGED <<totp_secret_file, sessions_file, issued, next_token>>
       ELSE IF ~verify_totp(secret, totp_code, totp_step)
       THEN /\ resp' = Response("complete_setup", "setup.html error", EmptyToken, totp_code)
            /\ UNCHANGED <<totp_secret_file, sessions_file, issued, next_token>>
       ELSE /\ totp_secret_file' = save_totp_secret(secret)
            /\ session_cookie("complete_setup", totp_code)
    /\ UNCHANGED <<totp_step, now, revoked, logged_out, rejected, last>>
    /\ UNCHANGED orchVars
    /\ UNCHANGED raceVars

\* POST /login
login(totp_code) ==
    /\ IF get_totp_secret(totp_secret_file) = None
       THEN /\ resp' = Response("login", "303 /setup", EmptyToken, totp_code)
            /\ UNCHANGED <<sessions_file, issued, next_token>>
       ELSE IF ~verify_totp(get_totp_secret(totp_secret_file), totp_code, totp_step)
       THEN /\ resp' = Response("login", "login.html error", EmptyToken, totp_code)
            /\ UNCHANGED <<sessions_file, issued, next_token>>
       ELSE session_cookie("login", totp_code)
    /\ UNCHANGED <<totp_secret_file, totp_step, now, revoked, logged_out, rejected, last>>
    /\ UNCHANGED orchVars
    /\ UNCHANGED raceVars

\* GET /auth/verify: verify_session, then get_session_user for the header.
verify_auth(session_id) ==
    /\ sessions_file' = verify_session_file(session_id, sessions_file, now)
    /\ rejected' = IF sessions_file' # sessions_file
                   THEN rejected \cup {session_id} ELSE rejected
    /\ resp' = IF verify_session_result(session_id, sessions_file, now)
               THEN Response("verify_auth", "200", EmptyToken, NoCode)
               ELSE Response("verify_auth", "401", EmptyToken, NoCode)
    /\ UNCHANGED <<totp_secret_file, totp_step, now, next_token, issued, revoked,
                   logged_out, last>>
    /\ UNCHANGED orchVars
    /\ UNCHANGED raceVars

\* The next 30-second time step begins.
StepTick ==
    /\ totp_step < MaxStep
    /\ totp_step' = totp_step + 1
    /\ UNCHANGED <<totp_secret_file, resp>>
    /\ UNCHANGED authVars
    /\ UNCHANGED orchVars
    /\ UNCHANGED raceVars

(***************************************************************************)
(* The provider (DigitalOcean API) and the sandbox agent, as droplet.py    *)
(* sees them through _request and httpx.                                   *)
(***************************************************************************)
SANDBOX_TAG == "sandbox-instance"
BUILDER_TAG_mut == SANDBOX_TAG
BUILDER_TAG == "sandbox-builder"
Configs == {"cfg1", "cfg2"}


\* How one provider request ends (_request, lines 30-42):
\*   ok              2xx with the expected JSON body
\*   http_error      4xx/5xx: raise_for_status raises httpx.HTTPStatusError
\*   transport_error connection failure or timeout: client.request raises
\*   malformed       2xx with a body that is not JSON: response.json() raises
\*   empty           2xx with no content or with JSON lacking the droplet
\*                   (a reply to a create request only)
Outcomes == {"ok", "http_error", "transport_error", "malformed"}
\* The provider carried the request out.
Effective(o) == o \in {"ok", "empty", "malformed"}
\* _request raises.
_request_raises(o) == o \in {"http_error", "transport_error", "malformed"}
\* The `except httpx.HTTPStatusError` clauses of spawn_sandbox and kill_sandbox.
is_HTTPStatusError(o) == o = "http_error"

\* How the POST to the sandbox agent ends (apply_network_config, lines 166-175).
AgentOutcomes == {"ok", "agent_error", "malformed", "transport_error"}

NoDroplet == [id |-> 0, tag |-> "", status |-> "", v4 |-> <<>>,
              pending |-> "none", snapshots |-> <<>>]

Ip(id, k) == 10 * id + k
\* The network attachments an instance can come up with: no private one, or
\* several of each type.  (The builder's are never read: it gets the latter.)
NetworkChoices(id, tag) ==
    { v4 \in {
      <<[type |-> "public", ip_address |-> Ip(id, 1)]>>,
      <<[type |-> "private", ip_address |-> Ip(id, 2)],
        [type |-> "public", ip_address |-> Ip(id, 1)],
        [type |-> "private", ip_address |-> Ip(id, 4)],
        [type |-> "public", ip_address |-> Ip(id, 3)]>> } :
      tag = SANDBOX_TAG \/ Len(v4) > 1 }

Exists(ds, id) == \E i \in DOMAIN ds : ds[i].id = id
ById(ds, id) == IF Exists(ds, id)
                THEN ds[CHOOSE i \in DOMAIN ds : ds[i].id = id]
                ELSE NoDroplet
HasTag(d, tag) == d.tag = tag
Tagged(ds, tag) == SelectSeq(ds, LAMBDA d : HasTag(d, tag))

ProviderCreate(ds, id, tag) ==
    Append(ds, [id |-> id, tag |-> tag, status |-> "new", v4 |-> <<>>,
                pending |-> "none", snapshots |-> <<>>])
ProviderDelete(ds, id) == SelectSeq(ds, LAMBDA d : d.id # id)
ProviderAction(ds, id, type) ==
    [i \in DOMAIN ds |-> IF ds[i].id = id THEN [ds[i] EXCEPT !.pending = type] ELSE ds[i]]

\* Whether the provider can carry a request out in its present state.
CanCreate == next_id <= MaxDroplets
CanDelete(ds, id) == Exists(ds, id)
CanAct(ds, id, type) ==
    /\ Exists(ds, id)
    /\ ById(ds, id).pending = "none"
    /\ type = "shutdown" => ById(ds, id).status = "active"
    /\ type = "snapshot" => ById(ds, id).status \in {"active", "off"}
Failures == {"http_error", "transport_error"}
Possible(can) == IF can THEN Outcomes ELSE Failures
PossibleCreate(can) == IF can THEN Outcomes \cup {"empty"} ELSE Failures

Req(kind, target, tag, outcome) ==
    [kind |-> kind, target |-> target, tag |-> tag, outcome |-> outcome]

\* The instance comes up: status active, network attachments assigned.
ProviderActivate ==
    \E i \in DOMAIN droplets : \E v4 \in NetworkChoices(droplets[i].id, droplets[i].tag) :
        /\ droplets[i].status = "new"
        /\ droplets' = [droplets EXCEPT ![i].status = "active", ![i].v4 = v4]
        /\ UNCHANGED <<next_id, network_config_file, res, reqs,
                       bs_pc, bs_id, bs_snaps, bs_res, bs_reqs>>
        /\ UNCHANGED authVars
        /\ UNCHANGED enrollVars
        /\ UNCHANGED raceVars

\* A pending instance action completes: the instance is powered off, or its
\* snapshot appears in its snapshot list.
ProviderFinishAction ==
    \E i \in DOMAIN droplets :
        /\ droplets[i].pending # "none"
        /\ droplets' =
             IF droplets[i].pending = "shutdown"
             THEN [droplets EXCEPT ![i].pending = "none", ![i].status = "off"]
             ELSE [droplets EXCEPT ![i].pending = "none",
                                   ![i].snapshots = Append(@, 100 + droplets[i].id)]
        /\ UNCHANGED <<next_id, network_config_file, res, reqs,
                       bs_pc, bs_id, bs_snaps, bs_res, bs_reqs>>
        /\ UNCHANGED authVars
        /\ UNCHANGED enrollVars
        /\ UNCHANGED raceVars

(***************************************************************************)
(* droplet.py: DropletManager                                              *)
(***************************************************************************)

\* _find_sandbox_droplet: droplets[0] of the list by tag; None when the list
\* is empty or the request failed in any way.
_find_sandbox_droplet_mut(ds, o) ==
    IF Tagged(ds, SANDBOX_TAG) # <<>>
    THEN Tagged(ds, SANDBOX_TAG)[1]
    ELSE NoDroplet
_find_sandbox_droplet(ds, o) ==
    IF o = "ok" /\ Tagged(ds, SANDBOX_TAG) # <<>>
    THEN Tagged(ds, SANDBOX_TAG)[1]
    ELSE NoDroplet

\* `if not droplet` / `if existing`
found(droplet) == droplet.id # 0

\* The loop of get_sandbox_status over networks.v4: each entry of a type
\* overwrites the address taken from the one before.
ip_of_type(v4, type) ==
    LET s == SelectSeq(v4, LAMBDA n : n.type = type)
    IN  IF s = <<>> THEN 0 ELSE s[Len(s)].ip_address

Result(op, status, message, droplet_id) ==
    [op |-> op, status |-> status, message |-> message, droplet_id |-> droplet_id,
     running |-> FALSE, ip_address |-> 0, private_ip |-> 0,
     inner |-> "not_invoked", raised |-> FALSE]
Raised(op, o) ==
    [Result(op, "raised",
            IF o = "malformed" THEN "json.JSONDecodeError"
            ELSE IF o = "http_error" THEN "httpx.HTTPStatusError"
            ELSE "httpx.TransportError", 0)
     EXCEPT !.raised = TRUE]

\* get_sandbox_status: the record it returns.
get_sandbox_status_result(ds, o) ==
    LET droplet == _find_sandbox_droplet(ds, o)
    IN  IF ~found(droplet)
        THEN Result("get_sandbox_status", "not_created", "", 0)
        ELSE [Result("get_sandbox_status", droplet.status, "", droplet.id)
              EXCEPT !.running = (droplet.status = "active"),
                     !.ip_address = ip_of_type(droplet.v4, "public"),
                     !.private_ip = ip_of_type(droplet.v4, "private")]

get_sandbox_status ==
    \E o \in Outcomes :
        /\ res' = get_sandbox_status_result(droplets, o)
        /\ reqs' = <<Req("list", 0, SANDBOX_TAG, o)>>
        /\ UNCHANGED <<droplets, next_id, network_config_file,
                       bs_pc, bs_id, bs_snaps, bs_res, bs_reqs>>
        /\ UNCHANGED authVars
        /\ UNCHANGED enrollVars
        /\ UNCHANGED raceVars

\* spawn_sandbox: what it returns once the create request ended with o.
spawn_sandbox_result_mut(o, new_id) ==
    IF ~_request_raises(o)
    THEN Result("spawn_sandbox", "creating", "Sandbox droplet is being created", 0)
    ELSE Result("spawn_sandbox", "error", "Failed to create droplet", 0)
spawn_sandbox_result(o, new_id) ==
    IF ~_request_raises(o)
    THEN Result("spawn_sandbox", "creating", "Sandbox droplet is being created",
                IF o = "ok" THEN new_id ELSE 0)
    ELSE IF is_HTTPStatusError(o)
    THEN Result("spawn_sandbox", "error", "Failed to create droplet", 0)
    ELSE Raised("spawn_sandbox", o)

spawn_sandbox ==
    /\ UNCHANGED <<network_config_file, bs_pc, bs_id, bs_snaps, bs_res, bs_reqs>>
    /\ UNCHANGED authVars
    /\ UNCHANGED enrollVars
    /\ UNCHANGED raceVars
    /\ \E o1 \in Outcomes :
           LET existing == _find_sandbox_droplet(droplets, o1)
           IN  IF found(existing)
               THEN /\ res' = Result("spawn_sandbox", "error", "Sandbox already running",
                                     existing.id)
                    /\ reqs' = <<Req("list", 0, SANDBOX_TAG, o1)>>
                    /\ UNCHANGED <<droplets, next_id>>
               ELSE \E o2 \in PossibleCreate(CanCreate) :
                    /\ res' = spawn_sandbox_result(o2, next_id)
                    /\ reqs' = <<Req("list", 0, SANDBOX_TAG, o1),
                                 Req("create", 0, SANDBOX_TAG, o2)>>
                    /\ droplets' = IF Effective(o2)
                                   THEN ProviderCreate(droplets, next_id, SANDBOX_TAG)
                                   ELSE droplets
                    /\ next_id' = IF Effective(o2) THEN next_id + 1 ELSE next_id

\* kill_sandbox: what it returns once the destroy request ended with o.
kill_sandbox_result(o, droplet_id) ==
    IF ~_request_raises(o)
    THEN Result("kill_sandbox", "ok", "Sandbox droplet destroyed", droplet_id)
    ELSE IF is_HTTPStatusError(o)
    THEN Result("kill_sandbox", "error", "Failed to destroy droplet", 0)
    ELSE Raised("kill_sandbox", o)

kill_sandbox ==
    /\ UNCHANGED <<next_id, network_config_file, bs_pc, bs_id, bs_snaps, bs_res, bs_reqs>>
    /\ UNCHANGED authVars
    /\ UNCHANGED enrollVars
    /\ UNCHANGED raceVars
    /\ \E o1 \in Outcomes :
           LET droplet == _find_sandbox_droplet(droplets, o1)
           IN  IF ~found(droplet)
               THEN /\ res' = Result("kill_sandbox", "ok", "No sandbox running", 0)
                    /\ reqs' = <<Req("list", 0, SANDBOX_TAG, o1)>>
                    /\ UNCHANGED droplets
               ELSE \E o2 \in Possible(CanDelete(droplets, droplet.id)) :
                    /\ res' = kill_sandbox_result(o2, droplet.id)
                    /\ reqs' = <<Req("list", 0, SANDBOX_TAG, o1),
                                 Req("delete", droplet.id, "", o2)>>
                    /\ droplets' = IF Effective(o2)
                                   THEN ProviderDelete(droplets, droplet.id)
                                   ELSE droplets

\* apply_network_config: the guards before the agent is contacted.
\* "send" when both pass, else the error message returned.
apply_guard_mut(status) == "send"
apply_guard(status) ==
    IF ~status.running THEN "Sandbox not running"
    ELSE IF status.private_ip = 0 THEN "No private IP for sandbox"
    ELSE "send"

\* apply_network_config: what it returns once the agent request ended with a.
apply_network_config_result(a) ==
    IF a = "ok" THEN Result("apply_network_config", "ok", "agent", 0)
    ELSE IF a = "agent_error" THEN Result("apply_network_config", "error", "agent", 0)
    ELSE Result("apply_network_config", "error", "exception", 0)

\* apply_network_config: what it returns and the requests it sends; o is how
\* its list request ends, a how the agent request ends.
apply_network_config_run(config, o, a, ds) ==
    LET status == get_sandbox_status_result(ds, o)
        guard == apply_guard(status)
    IN  IF guard # "send"
        THEN [res |-> Result("apply_network_config", "error", guard, 0),
              reqs |-> <<Req("list", 0, SANDBOX_TAG, o)>>]
        ELSE [res |-> apply_network_config_result(a),
              reqs |-> <<Req("list", 0, SANDBOX_TAG, o),
                         Req("agent", status.private_ip, config, a)>>]

apply_network_config ==
    \E config \in Configs, o \in Outcomes, a \in AgentOutcomes :
        LET run == apply_network_config_run(config, o, a, droplets)
        IN  /\ Len(run.reqs) = 1 => a = "ok"
            /\ res' = run.res
            /\ reqs' = run.reqs
            /\ UNCHANGED <<droplets, next_id, network_config_file,
                           bs_pc, bs_id, bs_snaps, bs_res, bs_reqs>>
            /\ UNCHANGED authVars
            /\ UNCHANGED enrollVars
            /\ UNCHANGED raceVars

(***************************************************************************)
(* droplet.py: build_sandbox_snapshot, one action per awaited request.     *)
(* The sleeps between the requests are where other calls and the provider  *)
(* take their steps.                                                       *)
(***************************************************************************)
BsResult(status, message, snapshot_id) ==
    [status |-> status, message |-> message, snapshot_id |-> snapshot_id]

\* `except Exception as e: return {"status": "error", "message": str(e)}`
bs_except(request) ==
    /\ bs_pc' = "idle"
    /\ bs_res' = BsResult("error", "exception", 0)
    /\ bs_reqs' = Append(bs_reqs, request)
    /\ UNCHANGED <<bs_id, bs_snaps>>

\* lines 200-207: create the builder droplet
bs_create ==
    /\ bs_pc = "idle"
    /\ \E o \in PossibleCreate(CanCreate) :
        /\ droplets' = IF Effective(o)
                       THEN ProviderCreate(droplets, next_id, BUILDER_TAG)
                       ELSE droplets
        /\ next_id' = IF Effective(o) THEN next_id + 1 ELSE next_id
        /\ bs_reqs' = <<Req("create", 0, BUILDER_TAG, o)>>
        /\ bs_snaps' = <<>>
        /\ IF _request_raises(o)
           THEN /\ bs_pc' = "idle"
                /\ bs_res' = BsResult("error", "exception", 0)
                /\ bs_id' = 0
           ELSE IF o = "empty"
           THEN /\ bs_pc' = "idle"
                /\ bs_res' = BsResult("error", "Failed to create builder droplet", 0)
                /\ bs_id' = 0
           ELSE /\ bs_pc' = "sleep_60"
                /\ bs_res' = BsResult("running", "", 0)
                /\ bs_id' = next_id
    /\ UNCHANGED <<network_config_file, res, reqs>>
    /\ UNCHANGED authVars
    /\ UNCHANGED enrollVars
    /\ UNCHANGED raceVars

\* lines 210-215: power off the droplet
bs_shutdown ==
    /\ bs_pc = "sleep_60"
    /\ \E o \in Possible(CanAct(droplets, bs_id, "shutdown")) :
        /\ droplets' = IF Effective(o)
                       THEN ProviderAction(droplets, bs_id, "shutdown")
                       ELSE droplets
        /\ IF _request_raises(o)
           THEN bs_except(Req("shutdown", bs_id, "", o))
           ELSE /\ bs_pc' = "sleep_30"
                /\ bs_reqs' = Append(bs_reqs, Req("shutdown", bs_id, "", o))
                /\ UNCHANGED <<bs_id, bs_snaps, bs_res>>
    /\ UNCHANGED <<next_id, network_config_file, res, reqs>>
    /\ UNCHANGED authVars
    /\ UNCHANGED enrollVars
    /\ UNCHANGED raceVars

\* lines 218-225: create the snapshot
bs_snapshot ==
    /\ bs_pc = "sleep_30"
    /\ \E o \in Possible(CanAct(droplets, bs_id, "snapshot")) :
        /\ droplets' = IF Effective(o)
                       THEN ProviderAction(droplets, bs_id, "snapshot")
                       ELSE droplets
        /\ IF _request_raises(o)
           THEN bs_except(Req("snapshot", bs_id, "", o))
           ELSE /\ bs_pc' = "sleep_120"
                /\ bs_reqs' = Append(bs_reqs, Req("snapshot", bs_id, "", o))
                /\ UNCHANGED <<bs_id, bs_snaps, bs_res>>
    /\ UNCHANGED <<next_id, network_config_file, res, reqs>>
    /\ UNCHANGED authVars
    /\ UNCHANGED enrollVars
    /\ UNCHANGED raceVars

\* lines 228-229: list the droplet's snapshots
bs_list ==
    /\ bs_pc = "sleep_120"
    /\ \E o \in Possible(Exists(droplets, bs_id)) :
        /\ IF _request_raises(o)
           THEN bs_except(Req("list_snapshots", bs_id, "", o))
           ELSE /\ bs_pc' = "destroy"
                /\ bs_snaps' = IF o = "ok" THEN ById(droplets, bs_id).snapshots ELSE <<>>
                /\ bs_reqs' = Append(bs_reqs, Req("list_snapshots", bs_id, "", o))
                /\ UNCHANGED <<bs_id, bs_res>>
    /\ UNCHANGED <<droplets, next_id, network_config_file, res, reqs>>
    /\ UNCHANGED authVars
    /\ UNCHANGED enrollVars
    /\ UNCHANGED raceVars

\* lines 232-241: destroy the builder droplet and return
bs_destroy ==
    /\ bs_pc = "destroy"
    /\ \E o \in Possible(CanDelete(droplets, bs_id)) :
        /\ droplets' = IF Effective(o) THEN ProviderDelete(droplets, bs_id) ELSE droplets
        /\ IF _request_raises(o)
           THEN bs_except(Req("delete", bs_id, "", o))
           ELSE /\ bs_pc' = "idle"
                /\ bs_res' = IF bs_snaps # <<>>
                             THEN BsResult("ok", "Snapshot created successfully",
                                           bs_snaps[Len(bs_snaps)])
                             ELSE BsResult("error", "Snapshot not found", 0)
                /\ bs_reqs' = Append(bs_reqs, Req("delete", bs_id, "", o))
                /\ UNCHANGED <<bs_id, bs_snaps>>
    /\ UNCHANGED <<next_id, network_config_file, res, reqs>>
    /\ UNCHANGED authVars
    /\ UNCHANGED enrollVars
    /\ UNCHANGED raceVars

(***************************************************************************)
(* main.py: POST /api/network/config                                       *)
(***************************************************************************)
\* What update_network_config returns, given what apply_network_config
\* returned to it (the handler drops that value).
update_network_config_result(applied) ==
    [Result("update_network_config", "ok", "", 0) EXCEPT !.inner = applied]

update_network_config ==
    \E config \in Configs, o1 \in Outcomes :
        LET status == get_sandbox_status_result(droplets, o1)
        IN  /\ network_config_file' = config
            /\ IF status.running
               THEN \E o2 \in Outcomes, a \in AgentOutcomes :
                    LET run == apply_network_config_run(config, o2, a, droplets)
                    IN  /\ Len(run.reqs) = 1 => a = "ok"
                        /\ res' = update_network_config_result(run.res.status)
                        /\ reqs' = <<Req("list", 0, SANDBOX_TAG, o1)>> \o run.reqs
               ELSE /\ res' = update_network_config_result("not_invoked")
                    /\ reqs' = <<Req("list", 0, SANDBOX_TAG, o1)>>
            /\ UNCHANGED <<droplets, next_id, bs_pc, bs_id, bs_snaps, bs_res, bs_reqs>>
            /\ UNCHANGED authVars
            /\ UNCHANGED enrollVars
            /\ UNCHANGED raceVars

(***************************************************************************)
(* droplet.py: spawn_sandbox called by two requests at once.  The call      *)
(* awaits its lookup and then its create request; another call runs at     *)
(* each await.                                                             *)
(***************************************************************************)
Callers == {"A", "B"}
CallerReq(caller, req) == [caller |-> caller, req |-> req]

\* lines 90-97: `existing = await self._find_sandbox_droplet()`
spawn_lookup(c) ==
    /\ sp_pc[c] = "start"
    /\ \E o1 \in Outcomes :
          LET existing == _find_sandbox_droplet(droplets, o1)
          IN  /\ sp_reqs' = Append(sp_reqs, CallerReq(c, Req("list", 0, SANDBOX_TAG, o1)))
              /\ IF found(existing)
                 THEN /\ sp_pc' = [sp_pc EXCEPT ![c] = "done"]
                      /\ sp_res' = [sp_res EXCEPT ![c] =
                              Result("spawn_sandbox", "error", "Sandbox already running",
                                     existing.id)]
                 ELSE /\ sp_pc' = [sp_pc EXCEPT ![c] = "create"]
                      /\ UNCHANGED sp_res
    /\ UNCHANGED <<ws, droplets, next_id, network_config_file, res, reqs,
                   bs_pc, bs_id, bs_snaps, bs_res, bs_reqs>>
    /\ UNCHANGED authVars
    /\ UNCHANGED enrollVars

\* lines 99-124: `data = await self._request("POST", "/droplets", ...)`
spawn_create(c) ==
    /\ sp_pc[c] = "create"
    /\ \E o2 \in PossibleCreate(CanCreate) :
          /\ sp_reqs' = Append(sp_reqs, CallerReq(c, Req("create", 0, SANDBOX_TAG, o2)))
          /\ sp_res' = [sp_res EXCEPT ![c] = spawn_sandbox_result(o2, next_id)]
          /\ droplets' = IF Effective(o2)
                         THEN ProviderCreate(droplets, next_id, SANDBOX_TAG)
                         ELSE droplets
          /\ next_id' = IF Effective(o2) THEN next_id + 1 ELSE next_id
    /\ sp_pc' = [sp_pc EXCEPT ![c] = "done"]
    /\ UNCHANGED <<ws, network_config_file, res, reqs,
                   bs_pc, bs_id, bs_snaps, bs_res, bs_reqs>>
    /\ UNCHANGED authVars
    /\ UNCHANGED enrollVars

(***************************************************************************)
(* auth.py: session-store mutations made by two workers at once.  A         *)
(* mutation reads sessions.json, changes the dict it read, and writes the  *)
(* whole dict back; nothing holds the file in between.                     *)
(***************************************************************************)
Workers == {"w1", "w2"}
\* A worker's locals: the call it is in, its token, the file as it read it
\* and the dict it is about to write.
Idle == [pc |-> "idle", op |-> "", token |-> EmptyToken, user |-> None,
         base |-> [exists |-> FALSE, data |-> NoSessions], sessions |-> NoSessions]

\* _save_sessions(data_dir, sessions): what the file holds after the write
\* of a mutation that read the file before.
written_sessions_mut(sessions, file) ==
    [d \in DOMAIN sessions \cup DOMAIN _load_sessions(file) |->
        IF d \in DOMAIN sessions THEN sessions[d] ELSE _load_sessions(file)[d]]
written_sessions(sessions, file) == sessions

\* create_session lines 60-72: token, load, purge, add the record
create_session_load(w, user) ==
    /\ ws[w].pc = "idle"
    /\ next_token <= MaxTokens
    /\ ws' = [ws EXCEPT ![w] =
          [pc |-> "save", op |-> "create_session", token |-> next_token, user |-> user,
           base |-> sessions_file,
           sessions |-> _load_sessions(
               create_session_file(user, next_token, sessions_file, now))]]
    /\ next_token' = next_token + 1
    /\ UNCHANGED <<sessions_file, now, issued, revoked, logged_out, rejected, last>>
    /\ UNCHANGED <<sp_pc, sp_res, sp_reqs>>
    /\ UNCHANGED orchVars
    /\ UNCHANGED enrollVars

\* revoke_session lines 119-126: load, find the key, delete it
revoke_session_load(w, token) ==
    /\ ws[w].pc = "idle"
    /\ revoke_session_result(token, sessions_file)
    /\ ws' = [ws EXCEPT ![w] =
          [pc |-> "save", op |-> "revoke_session", token |-> token, user |-> None,
           base |-> sessions_file,
           sessions |-> _load_sessions(revoke_session_file(token, sessions_file))]]
    /\ UNCHANGED authVars
    /\ UNCHANGED <<sp_pc, sp_res, sp_reqs>>
    /\ UNCHANGED orchVars
    /\ UNCHANGED enrollVars

\* create_session lines 74-76, revoke_session lines 127-128: write and return
session_save(w) ==
    /\ ws[w].pc = "save"
    /\ sessions_file' = _save_sessions(written_sessions(ws[w].sessions, sessions_file))
    /\ issued' = IF ws[w].op = "create_session"
                 THEN issued \cup {ws[w].token} ELSE issued
    /\ revoked' = IF ws[w].op = "revoke_session"
                  THEN revoked \cup {ws[w].token} ELSE revoked
    /\ last' = Call(ws[w].op, ws[w].token, ws[w].user, TRUE)
    /\ ws' = [ws EXCEPT ![w] = Idle]
    /\ UNCHANGED <<now, next_token, logged_out, rejected>>
    /\ UNCHANGED <<sp_pc, sp_res, sp_reqs>>
    /\ UNCHANGED orchVars
    /\ UNCHANGED enrollVars

Init ==
    /\ sessions_file = [exists |-> FALSE, data |-> NoSessions]
    /\ now = 0
    /\ next_token = 1
    /\ issued = {}
    /\ revoked = {}
    /\ logged_out = {}
    /\ rejected = {}
    /\ last = Call("init", EmptyToken, None, TRUE)
    /\ droplets = <<>>
    /\ next_id = 1
    /\ network_config_file = None
    /\ res = Result("init", "", "", 0)
    /\ reqs = <<>>
    /\ bs_pc = "idle"
    /\ bs_id = 0
    /\ bs_snaps = <<>>
    /\ bs_res = BsResult("none", "", 0)
    /\ bs_reqs = <<>>
    /\ totp_secret_file = None
    /\ totp_step = 2
    /\ resp = Response("init", "", EmptyToken, NoCode)
    /\ sp_pc = [c \in Callers |-> "start"]
    /\ sp_res = [c \in Callers |-> Result("init", "", "", 0)]
    /\ sp_reqs = <<>>
    /\ ws = [w \in Workers |-> Idle]

NextAuth ==
    \/ \E u \in Users : create_session(u)
    \/ \E t \in Tokens : verify_session(t)
    \/ \E t \in Tokens : get_session_user(t)
    \/ \E t \in Tokens : revoke_session(t)
    \/ revoke_all_sessions
    \/ \E t \in Tokens : logout(t)
    \/ Tick

SpecAuth == Init /\ [][NextAuth]_vars

\* The enrollment and login handlers of main.py, and the one-time-code clock.
NextEnroll ==
    \/ setup_page
    \/ \E secret \in Secrets, code \in Codes : complete_setup(secret, code)
    \/ \E code \in Codes : login(code)
    \/ \E t \in Tokens : verify_auth(t)
    \/ \E t \in Tokens : logout(t)
    \/ StepTick

SpecEnroll == Init /\ [][NextEnroll]_vars

\* The sandbox operations against the provider.
NextOrch ==
    \/ get_sandbox_status
    \/ spawn_sandbox
    \/ kill_sandbox
    \/ apply_network_config
    \/ update_network_config
    \/ ProviderActivate

SpecOrch == Init /\ [][NextOrch]_vars

\* The snapshot saga, with spawn and kill of the sandbox running beside it.
NextSaga ==
    \/ bs_create
    \/ bs_shutdown
    \/ bs_snapshot
    \/ bs_list
    \/ bs_destroy
    \/ spawn_sandbox
    \/ kill_sandbox
    \/ ProviderActivate
    \/ ProviderFinishAction

SpecSaga == Init /\ [][NextSaga]_vars

\* The saga with every sandbox operation running beside it.
NextIsolation ==
    \/ NextSaga
    \/ get_sandbox_status
    \/ apply_network_config

SpecIsolation == Init /\ [][NextIsolation]_vars

\* Two spawn_sandbox calls in flight at once.
NextSpawnRace ==
    \/ \E c \in Callers : spawn_lookup(c)
    \/ \E c \in Callers : spawn_create(c)
    \/ ProviderActivate

SpecSpawnRace == Init /\ [][NextSpawnRace]_vars

\* Two workers mutating the session store at once.
NextStoreRace ==
    \/ \E w \in Workers, u \in Users : create_session_load(w, u)
    \/ \E w \in Workers, t \in Tokens : revoke_session_load(w, t)
    \/ \E w \in Workers : session_save(w)
    \/ \E t \in Tokens : verify_session(t)

SpecStoreRace == Init /\ [][NextStoreRace]_vars

(***************************************************************************)
(* Properties                                                              *)
(***************************************************************************)
SandboxDroplets == Tagged(droplets, SANDBOX_TAG)
HasRecord(token) == session_hash(token) \in DOMAIN _load_sessions(sessions_file)
RecordOf(token) == _load_sessions(sessions_file)[session_hash(token)]
Kinds(sent, kind) == SelectSeq(sent, LAMBDA r : r.kind = kind)

\* C1: when build_sandbox_snapshot has returned, ok or error, the builder
\* instance it created no longer exists at the provider.
C1_BuildSnapshotCleanup ==
    (bs_pc = "idle" /\ bs_id # 0) => ~Exists(droplets, bs_id)

\* C2: Spawn with no tagged instance issues one create request and, the
\* provider accepting it, returns Creating with the new non-null id; Spawn
\* while a tagged instance exists returns AlreadyRunning with its id and
\* issues no create request; so Spawn calls leave at most one tagged instance.
C2_SpawnIdempotent ==
    [][spawn_sandbox =>
        /\ IF SandboxDroplets = <<>>
           THEN /\ Len(Kinds(reqs', "create")) = 1
                /\ Kinds(reqs', "create")[1].outcome = "ok" =>
                      /\ res'.status = "creating"
                      /\ res'.droplet_id # 0
                      /\ Exists(droplets', res'.droplet_id)
           ELSE /\ Len(Kinds(reqs', "create")) = 0
                /\ res'.message = "Sandbox already running"
                /\ res'.droplet_id = SandboxDroplets[1].id
        /\ Len(SandboxDroplets) <= 1 => Len(Tagged(droplets', SANDBOX_TAG)) <= 1]_vars

\* C3: Kill with no tagged instance returns Ok and issues no destroy request;
\* Kill with a tagged instance issues exactly one destroy request, for that
\* instance, and returns Ok with its id, or Error when the provider rejects
\* the request; the second of two Kills in a row returns no error unless the
\* provider rejects its destroy request.
C3_KillIdempotent ==
    [][kill_sandbox =>
        /\ IF SandboxDroplets = <<>>
           THEN /\ Len(Kinds(reqs', "delete")) = 0
                /\ res'.status = "ok"
           ELSE /\ Len(Kinds(reqs', "delete")) = 1
                /\ Kinds(reqs', "delete")[1].target = SandboxDroplets[1].id
                /\ Kinds(reqs', "delete")[1].outcome = "ok" =>
                      res'.status = "ok" /\ res'.droplet_id = SandboxDroplets[1].id
                /\ Kinds(reqs', "delete")[1].outcome = "http_error" =>
                      res'.status = "error"
        /\ (res.op = "kill_sandbox" /\ res'.status = "error") =>
              \E i \in DOMAIN reqs' :
                 reqs'[i].kind = "delete" /\ reqs'[i].outcome = "http_error"]_vars

\* C4: the token create_session returned passes a verify_session made right
\* after it (no other call, no time in between), whatever the principal and
\* the store before; verify_session is false for the empty token and for
\* every token create_session never returned.
C4_CreateThenVerify ==
    [][\A t \in Tokens : verify_session(t) =>
        /\ (last.op = "create_session" /\ last.token = t) => last'.ok
        /\ (t = EmptyToken \/ t \notin issued) => ~last'.ok]_vars

\* A token is accepted in the hour it was issued, with another session
\* already in the store.
C4_Witness ==
    /\ last.op = "verify_session" /\ last.ok
    /\ HasRecord(last.token)
    /\ RecordOf(last.token).created_at = now
    /\ Cardinality(DOMAIN _load_sessions(sessions_file)) >= 2

C6_Revocation ==
    [][\A t \in Tokens :
        /\ verify_session(t) =>
              ((t \in revoked \/ (last.op = "revoke_session" /\ last.token = t))
                  => ~last'.ok)
        /\ revoke_session(t) =>
              /\ session_hash(t) \notin DOMAIN _load_sessions(sessions_file')
              /\ \A d \in DOMAIN _load_sessions(sessions_file) \ {session_hash(t)} :
                    /\ d \in DOMAIN _load_sessions(sessions_file')
                    /\ _load_sessions(sessions_file')[d] = _load_sessions(sessions_file)[d]
              /\ (last.op = "revoke_session" /\ last.token = t) =>
                    (~last'.ok /\ sessions_file' = sessions_file)]_vars

\* A session was revoked and another one is still in the store.
C6_Witness ==
    /\ last.op = "revoke_session" /\ last.ok
    /\ ~HasRecord(last.token)
    /\ DOMAIN _load_sessions(sessions_file) # {}

\* C7: after a logout made with a session token the session's record is no
\* longer in the store (so the token can not be replayed).
C7_LogoutDeletesSession ==
    \A t \in logged_out : ~HasRecord(t)

\* C8: no public orchestrator operation raises: each returns a structured
\* result; and no failed provider request is sent a second time.
C8_NoExceptionEscapes ==
    /\ ~res.raised
    /\ \A i, j \in DOMAIN reqs :
          (i < j /\ reqs[i].outcome # "ok") => reqs[j] # reqs[i]

\* C9: a Set made while the sandbox is active invokes ApplyNetworkConfig
\* before it returns, and returns success only if the apply succeeded.
C9_SetReportsApply ==
    [][(update_network_config
          /\ SandboxDroplets # <<>> /\ SandboxDroplets[1].status = "active") =>
        /\ res'.inner # "not_invoked"
        /\ res'.status = "ok" => res'.inner = "ok"]_vars

\* C10: while the sandbox is not active or has no private address,
\* apply_network_config returns an error and sends nothing to an agent; every
\* request to an agent, by apply_network_config or by the Set that calls it,
\* goes to a private address of a sandbox instance whose status is active.
C10_ApplyGuard ==
    [][(apply_network_config \/ update_network_config) =>
        /\ (res'.op = "apply_network_config"
              /\ \/ SandboxDroplets = <<>>
                 \/ SandboxDroplets[1].status # "active"
                 \/ \A k \in DOMAIN SandboxDroplets[1].v4 :
                       SandboxDroplets[1].v4[k].type # "private") =>
              /\ res'.status = "error"
              /\ res'.message \in {"Sandbox not running", "No private IP for sandbox"}
              /\ Kinds(reqs', "agent") = <<>>
        /\ \A i \in DOMAIN reqs' : reqs'[i].kind = "agent" =>
              \E n \in DOMAIN droplets :
                 /\ droplets[n].tag = SANDBOX_TAG
                 /\ droplets[n].status = "active"
                 /\ \E k \in DOMAIN droplets[n].v4 :
                       /\ droplets[n].v4[k].type = "private"
                       /\ droplets[n].v4[k].ip_address = reqs'[i].target]_vars

\* apply_network_config refused: a sandbox exists but is still coming up.
C10_Witness ==
    /\ res.op = "apply_network_config"
    /\ res.message = "Sandbox not running"
    /\ SandboxDroplets # <<>>
    /\ SandboxDroplets[1].status = "new"
    /\ Len(reqs) = 1

\* The codes an authenticator shows for the secret during the given steps.
CodesOf(secret, steps) == {generate_otp(secret, t) : t \in steps}
\* The steps of the tolerance window around the verifier's step.
Window == (totp_step - 1)..(totp_step + 1)
\* The session store and the enrollment record stay as they are.
NothingPersisted ==
    /\ totp_secret_file' = totp_secret_file
    /\ sessions_file' = sessions_file
    /\ issued' = issued

\* C11: once a secret is persisted no step changes or removes it; a
\* complete_setup made while a secret exists fails (redirect to /login, no
\* cookie), persists nothing and creates no session, whatever secret and
\* code it presents.
C11_EnrollmentOnce ==
    [][/\ totp_secret_file # None => totp_secret_file' = totp_secret_file
       /\ \A secret \in Secrets, code \in Codes :
             (complete_setup(secret, code) /\ totp_secret_file # None) =>
                 /\ resp'.result = "303 /login"
                 /\ resp'.cookie = EmptyToken
                 /\ NothingPersisted]_vars

\* A complete_setup that presented a code valid for its secret was turned
\* away because a secret is already enrolled.
C11_Witness ==
    /\ resp.op = "complete_setup"
    /\ resp.result = "303 /login"
    /\ totp_secret_file # None
    /\ \E secret \in Secrets \ {totp_secret_file} :
          resp.code \in CodesOf(secret, Window)

\* C12: login without an enrolled secret fails; login or complete_setup with
\* a code outside the codes of the tolerance window returns an error; in
\* these cases nothing is persisted.  A step adds a session record only
\* when it is a complete_setup or a login whose code is one of the window.
C12_SessionsOnlyByAuthentication ==
    [][/\ \A code \in Codes : login(code) =>
             /\ totp_secret_file = None =>
                   (resp'.result = "303 /setup" /\ NothingPersisted)
             /\ (totp_secret_file # None
                   /\ code \notin CodesOf(totp_secret_file, Window)) =>
                   (resp'.result = "login.html error" /\ NothingPersisted)
       /\ \A secret \in Secrets, code \in Codes : complete_setup(secret, code) =>
             (code \notin CodesOf(secret, Window) =>
                   (resp'.cookie = EmptyToken /\ NothingPersisted))
       /\ (DOMAIN _load_sessions(sessions_file') \ DOMAIN _load_sessions(sessions_file)) # {} =>
             \/ \E code \in Codes :
                   /\ login(code)
                   /\ totp_secret_file # None
                   /\ code \in CodesOf(totp_secret_file, Window)
             \/ \E secret \in Secrets, code \in Codes :
                   /\ complete_setup(secret, code)
                   /\ code \in CodesOf(secret, Window)]_vars

\* A login with a wrong code was refused while a session of an earlier
\* login is in the store.
C12_Witness ==
    /\ resp.op = "login"
    /\ resp.result = "login.html error"
    /\ totp_secret_file # None
    /\ resp.code \notin CodesOf(totp_secret_file, Window)
    /\ DOMAIN _load_sessions(sessions_file) # {}

\* C13 as stated: the code of step t is accepted by a verification made at
\* steps t-1, t and t+1, and rejected by one made at step t-2 or t+2.
C13_ToleranceWindow ==
    [][\A code \in Codes : (login(code) /\ totp_secret_file # None) =>
          /\ code \in CodesOf(totp_secret_file, Window) => resp'.result = "303 /"
          /\ code \in CodesOf(totp_secret_file, {totp_step - 2, totp_step + 2}) =>
                resp'.result = "login.html error"]_vars

\* C13 amended: the code of step t is accepted by a verification made at
\* steps t-1, t and t+1; it is rejected by one made at step t-2 or t+2
\* unless the same code is also the code of one of the three steps of the
\* verifier's window.
C13_ToleranceWindowDistinctCodes ==
    [][\A code \in Codes : (login(code) /\ totp_secret_file # None) =>
          /\ code \in CodesOf(totp_secret_file, Window) => resp'.result = "303 /"
          /\ (code \in CodesOf(totp_secret_file, {totp_step - 2, totp_step + 2})
                /\ code \notin CodesOf(totp_secret_file, Window)) =>
                resp'.result = "login.html error"]_vars

\* A login was accepted with the code of the step after the verifier's,
\* which is the code of neither the verifier's step nor the one before.
C13_Witness ==
    /\ resp.op = "login"
    /\ resp.result = "303 /"
    /\ resp.code = generate_otp(totp_secret_file, totp_step + 1)
    /\ resp.code \notin CodesOf(totp_secret_file, {totp_step - 1, totp_step})

\* C14: every key of the session store is the digest of a token that
\* create_session returned, and is no raw token; a record holds the
\* principal and the two timestamps and nothing else; create_session is the
\* only call that returns the token: get_session_user returns a principal or
\* nothing.
C14_DigestIndexedStore ==
    /\ \A k \in DOMAIN _load_sessions(sessions_file) :
          /\ k \in {sha256(t) : t \in issued}
          /\ k \notin Tokens
          /\ DOMAIN _load_sessions(sessions_file)[k] = {"user", "created_at", "expires_at"}
          /\ _load_sessions(sessions_file)[k].user \in Users
    /\ last.op = "get_session_user" => last.user \in Users \cup {None}

\* get_session_user returned the principal of one of two stored sessions.
C14_Witness ==
    /\ last.op = "get_session_user"
    /\ last.user \in Users
    /\ Cardinality(DOMAIN _load_sessions(sessions_file)) = 2
    /\ Cardinality(issued) = 2

\* Both calls sent their lookup, each answered with an empty list, before
\* either sent its create request, and the provider accepted both creates.
BothObservedNotCreated ==
    /\ Len(sp_reqs) = 4
    /\ sp_reqs[1].caller # sp_reqs[2].caller
    /\ sp_reqs[3].caller # sp_reqs[4].caller
    /\ \A i \in {1, 2} : sp_reqs[i].req.kind = "list" /\ sp_reqs[i].req.outcome = "ok"
    /\ \A i \in {3, 4} : sp_reqs[i].req.kind = "create" /\ sp_reqs[i].req.outcome = "ok"

\* C15: when two concurrent spawn_sandbox calls both complete their lookup
\* before either create request, both issue a create request and both
\* return Creating, each with the id of its own instance, and two
\* instances carry the discovery tag.
C15_ConcurrentSpawnRace ==
    BothObservedNotCreated =>
        /\ \A c \in Callers :
              /\ sp_res[c].status = "creating"
              /\ Exists(droplets, sp_res[c].droplet_id)
              /\ ById(droplets, sp_res[c].droplet_id).tag = SANDBOX_TAG
        /\ \A c, d \in Callers : c # d => sp_res[c].droplet_id # sp_res[d].droplet_id
        /\ Len(SandboxDroplets) = 2

\* The interleaving happened: two lookups, then two creates, two instances.
C15_Witness ==
    /\ BothObservedNotCreated
    /\ \A c \in Callers : sp_pc[c] = "done" /\ sp_res[c].status = "creating"
    /\ Len(SandboxDroplets) = 2

\* C16: a mutation that writes after another mutation wrote, having read
\* the store before it, undoes the other's change: a record the other added
\* is missing afterwards and a record the other removed is present again;
\* verify_session then fails for the token of the missing record and
\* passes for the revoked token whose record is back.
C16_LostUpdate ==
    [][/\ \A w \in Workers : (session_save(w) /\ ws[w].base # sessions_file) =>
             LET before == _load_sessions(ws[w].base)
                 between == _load_sessions(sessions_file)
                 after == _load_sessions(sessions_file')
                 own == session_hash(ws[w].token)
             IN  /\ \A k \in (DOMAIN between \ DOMAIN before) \ {own} :
                        k \notin DOMAIN after
                 /\ \A k \in (DOMAIN before \ DOMAIN between) \ {own} :
                        ~is_expired(before[k], now) => k \in DOMAIN after
       /\ \A t \in Tokens : verify_session(t) =>
             /\ (t \in issued /\ ~HasRecord(t)) => ~last'.ok
             /\ (t \in revoked /\ HasRecord(t) /\ ~is_expired(RecordOf(t), now)) =>
                   last'.ok]_vars

\* A revoked session is in the store again: verify_session just accepted
\* its token, after the revoke_session call returned True.
C16_Witness ==
    /\ last.op = "verify_session" /\ last.ok
    /\ last.token \in revoked
    /\ HasRecord(last.token)

\* C17: right after any step that writes the session store, the store holds
\* no record whose expires_at has passed.
C17_PurgeOnEveryMutation ==
    [][sessions_file' # sessions_file =>
          \A k \in DOMAIN _load_sessions(sessions_file') :
              ~(_load_sessions(sessions_file')[k].expires_at < now)]_vars

\* C18: get_session_user returns a principal only if verify_session would
\* return True in the same state; for the empty token, a token without a
\* record and a token whose session has expired it returns nothing.
C18_PrincipalAgreesWithVerify ==
    [][\A t \in Tokens : get_session_user(t) =>
          /\ last'.user # None => verify_session_result(t, sessions_file, now)
          /\ (\/ t = EmptyToken
              \/ ~HasRecord(t)
              \/ RecordOf(t).expires_at < now) => last'.user = None]_vars

\* The address of the first network attachment of a type, 0 (null) if none.
FirstOfType(v4, type) ==
    IF \E i \in DOMAIN v4 : v4[i].type = type
    THEN v4[CHOOSE i \in DOMAIN v4 :
              /\ v4[i].type = type
              /\ \A j \in 1..(i - 1) : v4[j].type # type].ip_address
    ELSE 0

\* C19: get_sandbox_status returns not_created with null id and addresses
\* when no instance carries the discovery tag; otherwise, its lookup
\* answered, it reports the status of the first listed instance, running
\* exactly when that is active, the address of the first public attachment
\* as public address and of the first private attachment as private address.
C19_GetStatusMapping ==
    [][get_sandbox_status =>
          IF SandboxDroplets = <<>>
          THEN /\ res'.status = "not_created"
               /\ res'.droplet_id = 0
               /\ res'.ip_address = 0
               /\ res'.private_ip = 0
          ELSE reqs'[1].outcome = "ok" =>
               /\ res'.status = SandboxDroplets[1].status
               /\ res'.running = (SandboxDroplets[1].status = "active")
               /\ res'.ip_address = FirstOfType(SandboxDroplets[1].v4, "public")
               /\ res'.private_ip = FirstOfType(SandboxDroplets[1].v4, "private")]_vars

\* The requests of a build_sandbox_snapshot run, in the order the saga
\* sends them.
SagaOrder == <<"create", "shutdown", "snapshot", "list_snapshots", "delete">>

\* C20: the requests of build_sandbox_snapshot follow the saga's order, and
\* the shutdown action is sent only to an active builder, the snapshot
\* action only once the builder is powered off, and the snapshot list is
\* read only once the snapshot is complete.
C20_SagaStepOrdering ==
    [][/\ \A i \in DOMAIN bs_reqs' : bs_reqs'[i].kind = SagaOrder[i]
       /\ bs_shutdown => ById(droplets, bs_id).status = "active"
       /\ bs_snapshot => /\ ById(droplets, bs_id).status = "off"
                         /\ ById(droplets, bs_id).pending = "none"
       /\ bs_list => /\ ById(droplets, bs_id).snapshots # <<>>
                     /\ ById(droplets, bs_id).pending = "none"]_vars

\* A record whose expiry has not passed at hour t.
Unexpired(record, t) == record.expires_at >= t
\* The records of the other unexpired sessions are in the store after the
\* step exactly as before it; own is the key the call itself works on.
OthersKept(own) ==
    \A k \in DOMAIN _load_sessions(sessions_file) \ {own} :
        Unexpired(_load_sessions(sessions_file)[k], now) =>
            /\ k \in DOMAIN _load_sessions(sessions_file')
            /\ _load_sessions(sessions_file')[k] = _load_sessions(sessions_file)[k]

\* C21: create_session, verify_session and get_session_user neither remove
\* nor alter the record of another unexpired session; a token that passes
\* verify_session before a create_session passes it after it too.
C21_SessionsCoexist ==
    [][/\ \A u \in Users : create_session(u) =>
             /\ OthersKept(session_hash(next_token))
             /\ \A t \in issued :
                   verify_session_result(t, sessions_file, now) =>
                       verify_session_result(t, sessions_file', now)
       /\ \A t \in Tokens : verify_session(t) => OthersKept(session_hash(t))
       /\ \A t \in Tokens : get_session_user(t) => OthersKept(session_hash(t))]_vars

\* C22: when the list-by-tag request of an operation fails in any way, the
\* operation goes on as if no instance existed, even if one does:
\* get_sandbox_status returns not_created, kill_sandbox returns ok without
\* a destroy request, spawn_sandbox sends a create request; the failure of
\* the lookup itself is not returned as an error.
C22_FailedLookupIsNotCreated ==
    [][(reqs'[1].kind = "list" /\ reqs'[1].outcome # "ok") =>
          /\ get_sandbox_status =>
                /\ res'.status = "not_created"
                /\ res'.droplet_id = 0
          /\ kill_sandbox =>
                /\ res'.status = "ok"
                /\ res'.message = "No sandbox running"
                /\ Kinds(reqs', "delete") = <<>>
                /\ droplets' = droplets
          /\ spawn_sandbox =>
                /\ Len(reqs') = 2
                /\ reqs'[2].kind = "create"
                /\ res'.message # "Sandbox already running"
                /\ reqs'[2].outcome = "ok" => res'.status = "creating"]_vars

\* A spawn_sandbox whose lookup failed created a second tagged instance
\* beside the one that existed.
C22_Witness ==
    /\ res.op = "spawn_sandbox"
    /\ res.status = "creating"
    /\ reqs[1].outcome = "http_error"
    /\ Len(SandboxDroplets) = 2

\* The ids of the instances under the discovery tag.
SandboxIds == {droplets[i].id : i \in {j \in DOMAIN droplets : droplets[j].tag = SANDBOX_TAG}}
\* The instance of the running (or last) build_sandbox_snapshot is at the
\* provider after the step exactly as before it.
BuilderUntouched ==
    /\ Exists(droplets, bs_id) =>
          (Exists(droplets', bs_id) /\ ById(droplets', bs_id) = ById(droplets, bs_id))
    /\ \A i \in DOMAIN droplets : droplets[i].tag = BUILDER_TAG =>
          \E j \in DOMAIN droplets' : droplets'[j] = droplets[i]

\* C23: the builder is created under a tag that is not the discovery tag;
\* get_sandbox_status, spawn_sandbox, kill_sandbox and apply_network_config
\* leave every builder instance as it is, never return or address its id
\* and do not take it for a sandbox; build_sandbox_snapshot sends its
\* shutdown, snapshot, list and destroy requests to the id it created,
\* which is no sandbox instance, and leaves the sandbox instances as they
\* are.
C23_SandboxBuilderIsolation ==
    [][/\ (get_sandbox_status \/ spawn_sandbox \/ kill_sandbox \/ apply_network_config) =>
             /\ BuilderUntouched
             /\ res'.droplet_id # 0 =>
                   (res'.droplet_id # bs_id
                      /\ res'.droplet_id \in SandboxIds \cup
                            {droplets'[i].id : i \in {j \in DOMAIN droplets' :
                                                      droplets'[j].tag = SANDBOX_TAG}})
             /\ \A i \in DOMAIN reqs' : reqs'[i].kind = "delete" =>
                   (reqs'[i].target # bs_id /\ reqs'[i].target \in SandboxIds)
             /\ \A i \in DOMAIN reqs' : reqs'[i].kind = "agent" =>
                   \E n \in DOMAIN droplets :
                      /\ droplets[n].tag = SANDBOX_TAG
                      /\ \E k \in DOMAIN droplets[n].v4 :
                            droplets[n].v4[k].ip_address = reqs'[i].target
             /\ SandboxDroplets = <<>> =>
                   /\ res'.message \notin {"Sandbox already running",
                                          "Sandbox droplet destroyed"}
                   /\ ~res'.running
                   /\ res'.op = "get_sandbox_status" => res'.status = "not_created"
       /\ (bs_create \/ bs_shutdown \/ bs_snapshot \/ bs_list \/ bs_destroy) =>
             /\ Tagged(droplets', SANDBOX_TAG) = SandboxDroplets
             /\ bs_id' \notin SandboxIds
             /\ \A i \in DOMAIN bs_reqs' :
                   IF bs_reqs'[i].kind = "create"
                   THEN bs_reqs'[i].tag # SANDBOX_TAG
                   ELSE bs_reqs'[i].target = bs_id' /\ bs_id' # 0]_vars

\* kill_sandbox destroyed a sandbox that was created after the builder,
\* and the builder, its shutdown requested, is still at the provider.
C23_Witness ==
    /\ bs_pc = "sleep_30"
    /\ Exists(droplets, bs_id)
    /\ res.op = "kill_sandbox"
    /\ res.message = "Sandbox droplet destroyed"
    /\ res.droplet_id > bs_id
    /\ SandboxDroplets = <<>>

====
